---- MODULE Spec2Model ----
(***************************************************************************)
(* Hanabi: the game state of gamestate.py (deck, hands, discard pile,      *)
(* table, hint and mistake tokens, per-slot hint grids), its legal-action  *)
(* generator and apply_action, including the GameOver exits.               *)
(* A second part models hanabi.py, the module run() drives: its own        *)
(* GameState and apply_action, select_action_ai and the loop of run().     *)
(*                                                                         *)
(* Python lists indexed from 0 are functions over 0..n-1 where the index   *)
(* is part of the program's interface (players, hand slots), and TLA+      *)
(* sequences where only the order matters (deck, discard pile, action      *)
(* lists, argument lists: args[1] here is args[0] in the source).          *)
(***************************************************************************)
EXTENDS Integers, Sequences, FiniteSets, TLC

\* ------------------------------------------------------------------ bounds
\* num_players, the constructor's argument.
NumPlayers == 2
\* Cards left in the short deck after the deal (the short deck reaches the
\* exhausted deck within MaxTurns).
DeckExtra == 1
\* Number of apply_action calls explored per game.
MaxTurns == 3

\* ------------------------------------------------------- program constants
colour_values == <<"red", "yellow", "green", "blue", "white">>

card_values == <<1, 2, 3, 4, 5>>

Colours == {colour_values[k] : k \in 1..Len(colour_values)}

Values == {card_values[k] : k \in 1..Len(card_values)}

\* CARD_COUNTS[colour][value]
CARD_COUNTS == [c \in Colours |-> [v \in Values |->
                  CASE v = 1 -> 3 [] v = 2 -> 2 [] v = 3 -> 2 [] v = 4 -> 2 [] v = 5 -> 1]]

HandSize == 5

ALL_CARD_IDS == 0..(HandSize - 1)

InitialHintTokens == 8

InitialMistakeTokens == 3

Players == 0..(NumPlayers - 1)

\* The keys of a hint grid: itertools.product(colour_values, card_values).
Identities == Colours \X Values

\* Python's None in a hand slot.
None == [colour |-> "none", value |-> 0]

Card(c, v) == [colour |-> c, value |-> v]

\* ------------------------------------------------------------- the deck
\* create_deck before the shuffle: three ones per colour, then two each of
\* 2, 3, 4 (value-major, colour-minor), then one five per colour.
SortedDeck ==
  [k \in 1..50 |->
     IF k <= 15 THEN Card(colour_values[((k - 1) \div 3) + 1], 1)
     ELSE IF k <= 45
       THEN Card(colour_values[(((k - 16) % 10) \div 2) + 1], 2 + ((k - 16) \div 10))
       ELSE Card(colour_values[k - 45], 5)]

\* random.shuffle: a permutation of the deck.  The model draws it from the
\* family  position k <- sorted position ((k-1)*m + o) mod 50,  m coprime to
\* 50, given as pairs <<m, o>>.
Shuffles == {<<33, 25>>, <<17, 12>>}

Shuffled(m, o) == [k \in 1..50 |-> SortedDeck[(((k - 1) * m + o) % 50) + 1]]

\* The last n cards of a deck (the cards popped first).
Top(d, n) == SubSeq(d, Len(d) - n + 1, Len(d))

FullDeck == 50

\* The constructor's deck: a full deck, or a short one that holds the hands
\* and DeckExtra more cards.
DeckSizes == {FullDeck, HandSize * NumPlayers + DeckExtra}

\* -------------------------------------------------------------- state
VARIABLES
  deck,               \* self.deck, popped from the end
  hands,              \* self.hands[player][card_id], a card or None
  discard_pile,       \* self.discard_pile.cards
  table,              \* self.table[colour]
  hints_remaining,    \* self.hints_remaining
  mistakes_remaining, \* self.mistakes_remaining
  hints,              \* self.hints[player][card_id][(colour, value)]
  game_over,          \* the reason of the GameOver raised, "" while none is
  num_cards,          \* len(deck) handed to the constructor
  current_player,     \* the driver's current_player
  turns,              \* number of apply_action calls so far
  last                \* the last apply_action call and what it observed

vars == <<deck, hands, discard_pile, table, hints_remaining, mistakes_remaining,
          hints, game_over, num_cards, current_player, turns, last>>

\* ------------------------------------------------------------ hint grids
initial_hints == [id \in Identities |-> TRUE]

extract(hint_type, id) == IF hint_type = "colour" THEN id[1] ELSE id[2]

\* Faulty variants of apply_hint: the inclusion flag ignored, the two cases
\* swapped, and flags that are not cleared set to True.
apply_hint_ignores_flag(do_hint, card_hints, hint_type, hint_value) ==
  [card \in Identities |->
     IF extract(hint_type, card) # hint_value THEN FALSE ELSE card_hints[card]]

apply_hint_negated(do_hint, card_hints, hint_type, hint_value) ==
  [card \in Identities |->
     IF \/ (extract(hint_type, card) = hint_value /\ do_hint)
        \/ (extract(hint_type, card) # hint_value /\ ~do_hint)
     THEN FALSE
     ELSE card_hints[card]]

apply_hint_reopens(do_hint, card_hints, hint_type, hint_value) ==
  [card \in Identities |->
     IF \/ (extract(hint_type, card) # hint_value /\ do_hint)
        \/ (extract(hint_type, card) = hint_value /\ ~do_hint)
     THEN FALSE
     ELSE TRUE]

\* Faulty variant: only the slots left out of the hint are narrowed.
apply_hint_only_excluded(do_hint, card_hints, hint_type, hint_value) ==
  [card \in Identities |->
     IF extract(hint_type, card) = hint_value /\ ~do_hint THEN FALSE ELSE card_hints[card]]

apply_hint(do_hint, card_hints, hint_type, hint_value) ==
  [card \in Identities |->
     IF \/ (extract(hint_type, card) # hint_value /\ do_hint)
        \/ (extract(hint_type, card) = hint_value /\ ~do_hint)
     THEN FALSE
     ELSE card_hints[card]]

\* ---------------------------------------------------------- discard pile
\* DiscardPile.get_count: counts[(colour, value)] is incremented with every
\* add_card, so it is the number of such cards in the pile.
get_count(pile, colour, value) ==
  Cardinality({k \in 1..Len(pile) : pile[k].colour = colour /\ pile[k].value = value})

add_card(pile, card) == Append(pile, card)

\* ------------------------------------------------------------ queries
get_usable_cards(hs, player_id) ==
  LET F[i \in 0..HandSize] ==
        IF i = 0 THEN <<>>
        ELSE IF hs[player_id][i - 1] # None THEN Append(F[i - 1], i - 1) ELSE F[i - 1]
  IN F[HandSize]

SeqToSet(s) == {s[k] : k \in 1..Len(s)}

\* The keys of card_ids_by_colour / card_ids_by_value in insertion order:
\* the distinct colours (values) of the non-empty slots, by first appearance.
KeysInOrder(hand, hint_type) ==
  LET key(i) == IF hint_type = "colour" THEN hand[i].colour ELSE hand[i].value
      F[i \in 0..HandSize] ==
        IF i = 0 THEN <<>>
        ELSE IF hand[i - 1] # None /\ key(i - 1) \notin SeqToSet(F[i - 1])
          THEN Append(F[i - 1], key(i - 1)) ELSE F[i - 1]
  IN F[HandSize]

\* Variant of CardIdsBy that stops at the first matching slot.
CardIdsBy_first_only(hand, hint_type, k) ==
  LET key(i) == IF hint_type = "colour" THEN hand[i].colour ELSE hand[i].value
      F[i \in 0..HandSize] ==
        IF i = 0 THEN <<>>
        ELSE IF hand[i - 1] # None /\ key(i - 1) = k /\ F[i - 1] = <<>>
          THEN Append(F[i - 1], i - 1) ELSE F[i - 1]
  IN F[HandSize]

\* card_ids_by_colour[k] / card_ids_by_value[k]: slots appended in slot order.
CardIdsBy(hand, hint_type, k) ==
  LET key(i) == IF hint_type = "colour" THEN hand[i].colour ELSE hand[i].value
      F[i \in 0..HandSize] ==
        IF i = 0 THEN <<>>
        ELSE IF hand[i - 1] # None /\ key(i - 1) = k
          THEN Append(F[i - 1], i - 1) ELSE F[i - 1]
  IN F[HandSize]

Action(name, args) == [name |-> name, args |-> args]

HintActionsFor(hs, other_player_id) ==
  LET hand == hs[other_player_id]
      cs == KeysInOrder(hand, "colour")
      vs == KeysInOrder(hand, "value")
  IN [k \in 1..Len(cs) |->
        Action("hint", <<other_player_id, CardIdsBy(hand, "colour", cs[k]), "colour", cs[k]>>)]
     \o
     [k \in 1..Len(vs) |->
        Action("hint", <<other_player_id, CardIdsBy(hand, "value", vs[k]), "value", vs[k]>>)]

\* The hint part of get_available_actions: every hand in self.hands is
\* visited, in player order.
HintActions(hs) ==
  LET F[q \in 0..NumPlayers] ==
        IF q = 0 THEN <<>> ELSE F[q - 1] \o HintActionsFor(hs, q - 1)
  IN F[NumPlayers]

get_available_actions(hs, hr, player_id) ==
  LET usable == get_usable_cards(hs, player_id)
  IN [k \in 1..Len(usable) |-> Action("discard", <<usable[k]>>)]
     \o [k \in 1..Len(usable) |-> Action("play", <<usable[k]>>)]
     \o (IF hr > 0 THEN HintActions(hs) ELSE <<>>)

\* Variant with <= for <.
get_required_cards_le(tbl) == {<<k, tbl[k] + 1>> : k \in {c \in Colours : tbl[c] <= 5}}

get_required_cards(tbl) == {<<k, tbl[k] + 1>> : k \in {c \in Colours : tbl[c] < 5}}

\* Faulty variant: exclude_hands is ignored, every hand is counted.
get_card_counts_all_hands(pile, tbl, hs, exclude_hands) ==
  [c \in Colours |-> [v \in Values |->
     get_count(pile, c, v)
     + (IF v <= tbl[c] THEN 1 ELSE 0)
     + Cardinality({pi \in Players \X ALL_CARD_IDS :
                      hs[pi[1]][pi[2]] # None /\ hs[pi[1]][pi[2]].colour = c
                      /\ hs[pi[1]][pi[2]].value = v})]]

\* get_card_counts(exclude_hands)[colour][value]
get_card_counts(pile, tbl, hs, exclude_hands) ==
  [c \in Colours |-> [v \in Values |->
     get_count(pile, c, v)
     + (IF v <= tbl[c] THEN 1 ELSE 0)
     + Cardinality({pi \in (Players \ exclude_hands) \X ALL_CARD_IDS :
                      hs[pi[1]][pi[2]] # None /\ hs[pi[1]][pi[2]].colour = c
                      /\ hs[pi[1]][pi[2]].value = v})]]

possible_cards_from_hints(card_hints, card_counts) ==
  {id \in Identities : card_hints[id] /\ CARD_COUNTS[id[1]][id[2]] - card_counts[id[1]][id[2]] > 0}

\* The slots yielded, as a set (they are yielded in the order of usable_cards).
get_card_ids_player_can_play_from_hints(tbl, usable_cards, player_hints, player_card_counts) ==
  {card_id \in SeqToSet(usable_cards) :
     \A card \in possible_cards_from_hints(player_hints[card_id], player_card_counts) :
        card \in get_required_cards(tbl)}

\* Variant of can_discard that looks for an identity with no copy left.
can_discard_none_left(pile, tbl, possible_cards) ==
  \A card \in possible_cards :
    LET num_cards_not_discarded ==
          CARD_COUNTS[card[1]][card[2]] - get_count(pile, card[1], card[2])
        already_played == card[2] <= tbl[card[1]]
    IN ~(~already_played /\ num_cards_not_discarded = 0)

\* The inner loop of get_card_ids_player_can_discard_from_hints: can_discard
\* stays True unless some possible card is not played yet and has exactly
\* one copy outside the discard pile.
can_discard(pile, tbl, possible_cards) ==
  \A card \in possible_cards :
    LET num_cards_not_discarded ==
          CARD_COUNTS[card[1]][card[2]] - get_count(pile, card[1], card[2])
        already_played == card[2] <= tbl[card[1]]
    IN ~(~already_played /\ num_cards_not_discarded = 1)

get_card_ids_player_can_discard_from_hints(pile, tbl, usable_cards, player_hints, player_card_counts) ==
  {card_id \in SeqToSet(usable_cards) :
     can_discard(pile, tbl,
                 possible_cards_from_hints(player_hints[card_id], player_card_counts))}

\* Ground truth: the slots of player_id whose card is not played yet and has
\* more than one copy outside the discard pile.
get_card_ids_player_can_discard(pile, tbl, hs, player_id) ==
  {card_id \in SeqToSet(get_usable_cards(hs, player_id)) :
     LET card == hs[player_id][card_id]
         num_cards_not_discarded ==
           CARD_COUNTS[card.colour][card.value] - get_count(pile, card.colour, card.value)
         already_played == card.value <= tbl[card.colour]
     IN ~already_played /\ num_cards_not_discarded > 1}

\* Ground truth: the slots of player_id whose card is a required card.
get_card_ids_player_can_play(tbl, hs, player_id) ==
  {card_id \in SeqToSet(get_usable_cards(hs, player_id)) :
     <<hs[player_id][card_id].colour, hs[player_id][card_id].value>>
        \in get_required_cards(tbl)}

is_card_on_table(tbl, card) == card.value <= tbl[card.colour]

\* Variant with <= for <.
are_there_cards_remaining_le(pile, card) ==
  get_count(pile, card.colour, card.value) <= CARD_COUNTS[card.colour][card.value]

are_there_cards_remaining_of_this_type(pile, card) ==
  get_count(pile, card.colour, card.value) < CARD_COUNTS[card.colour][card.value]

LastCopyReason == "the last copy of this card has been discarded"

MistakesReason == "ran out of mistakes"

\* put_card_on_discard_pile: the pile after add_card, and whether GameOver is
\* raised (checked on the pile that already holds the card).
DiscardRaises(pile, tbl, card) ==
  /\ ~is_card_on_table(tbl, card)
  /\ ~are_there_cards_remaining_of_this_type(add_card(pile, card), card)

\* ----------------------------------------------------------------- Init
\* init_hands: player 0 pops five cards, then player 1, ...
Dealt(d) == [p \in Players |-> [i \in ALL_CARD_IDS |-> d[Len(d) - (HandSize * p + i)]]]

NoAction == Action("none", <<>>)

InitFrom(sh, n, grid) ==
  LET d == Top(Shuffled(sh[1], sh[2]), n) IN
  /\ deck = SubSeq(d, 1, Len(d) - HandSize * NumPlayers)
  /\ hands = Dealt(d)
  /\ discard_pile = <<>>
  /\ table = [c \in Colours |-> 0]
  /\ hints_remaining = InitialHintTokens
  /\ mistakes_remaining = InitialMistakeTokens
  /\ hints = [p \in Players |-> [i \in ALL_CARD_IDS |->
                IF p = 0 /\ i = 0 THEN grid ELSE initial_hints]]
  /\ game_over = ""
  /\ num_cards = n
  /\ current_player = 0
  /\ turns = 0
  /\ last = [player |-> 0, action |-> NoAction, card |-> None,
             certain_play |-> FALSE, certain_discard |-> FALSE, could_discard |-> FALSE,
             both_needed |-> FALSE, misplays |-> 0, branch |-> ""]

Init == \E sh \in Shuffles, n \in DeckSizes : InitFrom(sh, n, initial_hints)

\* -------------------------------------------------------------- actions
\* What the caller can work out before a play: the slots its own hints make
\* certainly playable.
PlayIds(player_id) ==
  get_card_ids_player_can_play_from_hints(table, get_usable_cards(hands, player_id),
     hints[player_id], get_card_counts(discard_pile, table, hands, {player_id}))

\* ... and the slots they make certainly discardable.
DiscardIds(player_id) ==
  get_card_ids_player_can_discard_from_hints(discard_pile, table,
     get_usable_cards(hands, player_id), hints[player_id],
     get_card_counts(discard_pile, table, hands, {player_id}))

\* Variant that forgets to invalidate.
invalidate_hint_skipped(h, player_id, card_id) == h

\* "invalidate hint": the slot's grid is replaced by a fresh one.
invalidate_hint(h, player_id, card_id) == [h EXCEPT ![player_id][card_id] = initial_hints]

\* Variant that allows one misplay too many.
OutOfMistakes_late(mr) == mr < 0

\* "if self.mistakes_remaining == 0" after the decrement.
OutOfMistakes(mr) == mr = 0

\* Variant of Draw that hands out the top card without popping it.
Draw_without_pop(player_id, card_id) ==
  IF Len(deck) > 0
    THEN /\ hands' = [hands EXCEPT ![player_id][card_id] = deck[Len(deck)]]
         /\ deck' = deck
    ELSE /\ hands' = [hands EXCEPT ![player_id][card_id] = None]
         /\ deck' = deck

\* Faulty variant: the last card of the deck is never drawn.
Draw_leaves_last(player_id, card_id) ==
  IF Len(deck) > 1
    THEN /\ hands' = [hands EXCEPT ![player_id][card_id] = deck[Len(deck)]]
         /\ deck' = SubSeq(deck, 1, Len(deck) - 1)
    ELSE /\ hands' = [hands EXCEPT ![player_id][card_id] = None]
         /\ deck' = deck

\* "draw a new card" at the end of discard and play.
Draw(player_id, card_id) ==
  IF Len(deck) > 0
    THEN /\ hands' = [hands EXCEPT ![player_id][card_id] = deck[Len(deck)]]
         /\ deck' = SubSeq(deck, 1, Len(deck) - 1)
    ELSE /\ hands' = [hands EXCEPT ![player_id][card_id] = None]
         /\ deck' = deck

\* GameOver raised before the draw: the slot stays None.
NoDraw(player_id, card_id) ==
  /\ hands' = [hands EXCEPT ![player_id][card_id] = None]
  /\ deck' = deck

\* The bookkeeping of one apply_action call: the driver moves to the next
\* player unless GameOver was raised.
Step(player_id, action, card, certain, misplay) ==
  /\ turns' = turns + 1
  /\ current_player' = IF game_over' = "" THEN (current_player + 1) % NumPlayers
                                          ELSE current_player
  /\ last' = [player |-> player_id, action |-> action, card |-> card,
              certain_play |-> certain,
              certain_discard |-> (action.name = "discard"
                                   /\ action.args[1] \in DiscardIds(player_id)),
              could_discard |-> (DiscardIds(player_id) # {}),
              both_needed |-> FALSE,
              misplays |-> IF misplay THEN last.misplays + 1 ELSE 0,
              branch |-> ""]
  /\ UNCHANGED num_cards

apply_discard(player_id, action) ==
  LET card_id == action.args[1]
      card == hands[player_id][card_id]
  IN /\ hints' = invalidate_hint(hints, player_id, card_id)
     /\ discard_pile' = add_card(discard_pile, card)
     /\ IF DiscardRaises(discard_pile, table, card)
          THEN /\ game_over' = LastCopyReason
               /\ hints_remaining' = hints_remaining
               /\ NoDraw(player_id, card_id)
          ELSE /\ game_over' = game_over
               /\ hints_remaining' = hints_remaining + 1
               /\ Draw(player_id, card_id)
     /\ UNCHANGED <<table, mistakes_remaining>>
     /\ Step(player_id, action, card, FALSE, FALSE)

\* Faulty variant: the out-of-mistakes check comes before the card is put
\* on the discard pile.
apply_play_mistakes_first(player_id, action) ==
  LET card_id == action.args[1]
      card == hands[player_id][card_id]
      certain == card_id \in PlayIds(player_id)
  IN /\ hints' = invalidate_hint(hints, player_id, card_id)
     /\ IF table[card.colour] + 1 = card.value
          THEN /\ table' = [table EXCEPT ![card.colour] = @ + 1]
               /\ UNCHANGED <<mistakes_remaining, discard_pile, game_over>>
               /\ Draw(player_id, card_id)
               /\ Step(player_id, action, card, certain, FALSE)
          ELSE /\ mistakes_remaining' = mistakes_remaining - 1
               /\ discard_pile' = add_card(discard_pile, card)
               /\ table' = table
               /\ IF OutOfMistakes(mistakes_remaining - 1)
                    THEN game_over' = MistakesReason /\ NoDraw(player_id, card_id)
                    ELSE IF DiscardRaises(discard_pile, table, card)
                      THEN game_over' = LastCopyReason /\ NoDraw(player_id, card_id)
                      ELSE game_over' = game_over /\ Draw(player_id, card_id)
               /\ Step(player_id, action, card, certain, TRUE)
     /\ UNCHANGED hints_remaining

apply_play(player_id, action) ==
  LET card_id == action.args[1]
      card == hands[player_id][card_id]
      certain == card_id \in PlayIds(player_id)
  IN /\ hints' = invalidate_hint(hints, player_id, card_id)
     /\ IF table[card.colour] + 1 = card.value
          THEN /\ table' = [table EXCEPT ![card.colour] = @ + 1]
               /\ UNCHANGED <<mistakes_remaining, discard_pile, game_over>>
               /\ Draw(player_id, card_id)
               /\ Step(player_id, action, card, certain, FALSE)
          ELSE /\ mistakes_remaining' = mistakes_remaining - 1
               /\ discard_pile' = add_card(discard_pile, card)
               /\ table' = table
               /\ IF DiscardRaises(discard_pile, table, card)
                    THEN game_over' = LastCopyReason /\ NoDraw(player_id, card_id)
                    ELSE IF OutOfMistakes(mistakes_remaining - 1)
                      THEN game_over' = MistakesReason /\ NoDraw(player_id, card_id)
                      ELSE game_over' = game_over /\ Draw(player_id, card_id)
               /\ Step(player_id, action, card, certain, TRUE)
     /\ UNCHANGED hints_remaining

\* Faulty variant: the hint costs no token.
apply_hint_action_free(player_id, action) ==
  LET other_player_id == action.args[1]
      card_ids_to_hint == action.args[2]
      hint_type == action.args[3]
      hint_value == action.args[4]
  IN /\ hints_remaining' = hints_remaining
     /\ hints' = [hints EXCEPT ![other_player_id] =
                    [card_id \in ALL_CARD_IDS |->
                       apply_hint(card_id \in SeqToSet(card_ids_to_hint),
                                  hints[other_player_id][card_id], hint_type, hint_value)]]
     /\ UNCHANGED <<deck, hands, discard_pile, table, mistakes_remaining, game_over>>
     /\ Step(player_id, action, None, FALSE, FALSE)

\* Faulty variant: the grids of empty slots are left alone.
apply_hint_action_usable_only(player_id, action) ==
  LET other_player_id == action.args[1]
      card_ids_to_hint == action.args[2]
      hint_type == action.args[3]
      hint_value == action.args[4]
  IN /\ hints_remaining' = hints_remaining - 1
     /\ hints' = [hints EXCEPT ![other_player_id] =
                    [card_id \in ALL_CARD_IDS |->
                       IF hands[other_player_id][card_id] = None
                         THEN hints[other_player_id][card_id]
                         ELSE apply_hint(card_id \in SeqToSet(card_ids_to_hint),
                                         hints[other_player_id][card_id], hint_type, hint_value)]]
     /\ UNCHANGED <<deck, hands, discard_pile, table, mistakes_remaining, game_over>>
     /\ Step(player_id, action, None, FALSE, FALSE)

apply_hint_action(player_id, action) ==
  LET other_player_id == action.args[1]
      card_ids_to_hint == action.args[2]
      hint_type == action.args[3]
      hint_value == action.args[4]
  IN /\ hints_remaining' = hints_remaining - 1
     /\ hints' = [hints EXCEPT ![other_player_id] =
                    [card_id \in ALL_CARD_IDS |->
                       apply_hint(card_id \in SeqToSet(card_ids_to_hint),
                                  hints[other_player_id][card_id], hint_type, hint_value)]]
     /\ UNCHANGED <<deck, hands, discard_pile, table, mistakes_remaining, game_over>>
     /\ Step(player_id, action, None, FALSE, FALSE)

\* apply_action: the branch is chosen by action.name.
apply_action(player_id, action) ==
  CASE action.name = "discard" -> apply_discard(player_id, action)
    [] action.name = "play" -> apply_play(player_id, action)
    [] action.name = "hint" -> apply_hint_action(player_id, action)

\* The driver applies, for the current player, an action drawn from
\* get_available_actions; once GameOver has been raised it stops.
Running == game_over = "" /\ turns < MaxTurns

Available == get_available_actions(hands, hints_remaining, current_player)

Discard ==
  /\ Running
  /\ LET actions == Available IN
       \E k \in 1..Len(actions) :
         actions[k].name = "discard" /\ apply_action(current_player, actions[k])

Play ==
  /\ Running
  /\ LET actions == Available IN
       \E k \in 1..Len(actions) :
         actions[k].name = "play" /\ apply_action(current_player, actions[k])

Hint ==
  /\ Running
  /\ LET actions == Available IN
       \E k \in 1..Len(actions) :
         actions[k].name = "hint" /\ apply_action(current_player, actions[k])

Next == Discard \/ Play \/ Hint

Spec == Init /\ [][Next]_vars

\* ---------------------------------------------- apply_hint on its own
\* apply_hint is a pure function of (do_hint, grid, hint_type, hint_value).
\* GridSpec applies it, over and over, to the grid of player 0's slot 0,
\* starting from grids that include ones no game produces.
ColourIndex(c) == CHOOSE k \in 1..Len(colour_values) : colour_values[k] = c

GridInputs ==
  { initial_hints,
    [id \in Identities |-> FALSE],
    [id \in Identities |-> ColourIndex(id[1]) = id[2]],
    [id \in Identities |-> (ColourIndex(id[1]) + id[2]) % 2 = 0],
    [id \in Identities |-> (ColourIndex(id[1]) * id[2]) % 3 = 1],
    [id \in Identities |-> id = <<"green", 3>>] }

HintTypes == {"colour", "value"}

HintValues(hint_type) == IF hint_type = "colour" THEN Colours ELSE Values

GridInit == \E g \in GridInputs : InitFrom(CHOOSE sh \in Shuffles : TRUE, FullDeck, g)

GridNext ==
  \E do_hint \in BOOLEAN, hint_type \in HintTypes :
    \E hint_value \in HintValues(hint_type) :
      /\ hints' = [hints EXCEPT ![0][0] = apply_hint(do_hint, @, hint_type, hint_value)]
      /\ last' = [player |-> 0, card |-> None, certain_play |-> FALSE,
                  certain_discard |-> FALSE, could_discard |-> FALSE,
                  both_needed |-> FALSE, misplays |-> 0, branch |-> "",
                  action |-> Action("apply_hint", <<do_hint, hints[0][0], hint_type, hint_value>>)]
      /\ UNCHANGED <<deck, hands, discard_pile, table, hints_remaining, mistakes_remaining,
                     game_over, num_cards, current_player, turns>>

GridSpec == GridInit /\ [][GridNext]_vars

\* ================================================= hanabi.py: the AI's game
\* hanabi.py carries its own GameState, with the same fields (the discard
\* pile is a plain list) and its own apply_action, plus select_action_ai and
\* the driver run().  Its definitions are prefixed with hanabi_.  The players'
\* card_counts (see_card) are only read when the hints are printed and are
\* left out.  The players are the indices of self.hands.
num_players == 5

hanabi_apply_hint(do_hint, card_hints, hint_type, hint_value) ==
  [card \in Identities |->
     IF \/ (extract(hint_type, card) # hint_value /\ do_hint)
        \/ (extract(hint_type, card) = hint_value /\ ~do_hint)
     THEN FALSE
     ELSE card_hints[card]]

hanabi_get_usable_cards(hs, player_id) ==
  LET F[i \in 0..HandSize] ==
        IF i = 0 THEN <<>>
        ELSE IF hs[player_id][i - 1] # None THEN Append(F[i - 1], i - 1) ELSE F[i - 1]
  IN F[HandSize]

hanabi_get_available_actions(hs, hr, player_id) ==
  LET usable == hanabi_get_usable_cards(hs, player_id)
      n == Cardinality(DOMAIN hs)
      H[q \in 0..n] == IF q = 0 THEN <<>> ELSE H[q - 1] \o HintActionsFor(hs, q - 1)
  IN [k \in 1..Len(usable) |-> Action("discard", <<usable[k]>>)]
     \o [k \in 1..Len(usable) |-> Action("play", <<usable[k]>>)]
     \o (IF hr > 0 THEN H[n] ELSE <<>>)

hanabi_get_required_cards(tbl) == {<<k, tbl[k] + 1>> : k \in {c \in Colours : tbl[c] < 5}}

\* discard_pile_counts[(colour, value)]: a Counter over the discard pile.
discard_pile_counts(pile, colour, value) ==
  Cardinality({k \in 1..Len(pile) : pile[k].colour = colour /\ pile[k].value = value})

hanabi_possible_cards_from_hints(card_hints, card_counts) ==
  {id \in Identities : card_hints[id] /\ CARD_COUNTS[id[1]][id[2]] - card_counts[id[1]][id[2]] > 0}

hanabi_get_card_ids_player_can_discard_from_hints(pile, tbl, usable_cards, player_hints, player_card_counts) ==
  {card_id \in SeqToSet(usable_cards) :
     \A card \in hanabi_possible_cards_from_hints(player_hints[card_id], player_card_counts) :
        LET num_cards_not_discarded ==
              CARD_COUNTS[card[1]][card[2]] - discard_pile_counts(pile, card[1], card[2])
            already_played == card[2] <= tbl[card[1]]
        IN ~(~already_played /\ num_cards_not_discarded = 1)}

hanabi_get_card_ids_player_can_play_from_hints(tbl, usable_cards, player_hints, player_card_counts) ==
  {card_id \in SeqToSet(usable_cards) :
     \A card \in hanabi_possible_cards_from_hints(player_hints[card_id], player_card_counts) :
        card \in hanabi_get_required_cards(tbl)}

hanabi_get_card_ids_player_can_discard(pile, tbl, hs, player_id) ==
  {card_id \in SeqToSet(hanabi_get_usable_cards(hs, player_id)) :
     LET card == hs[player_id][card_id]
         num_cards_not_discarded ==
           CARD_COUNTS[card.colour][card.value]
             - discard_pile_counts(pile, card.colour, card.value)
         already_played == card.value <= tbl[card.colour]
     IN ~already_played /\ num_cards_not_discarded > 1}

hanabi_get_card_ids_player_can_play(tbl, hs, player_id) ==
  {card_id \in SeqToSet(hanabi_get_usable_cards(hs, player_id)) :
     <<hs[player_id][card_id].colour, hs[player_id][card_id].value>>
        \in hanabi_get_required_cards(tbl)}

hanabi_get_card_counts(pile, tbl, hs, exclude_hands) ==
  [c \in Colours |-> [v \in Values |->
     discard_pile_counts(pile, c, v)
     + (IF v <= tbl[c] THEN 1 ELSE 0)
     + Cardinality({pi \in ((DOMAIN hs) \ exclude_hands) \X ALL_CARD_IDS :
                      hs[pi[1]][pi[2]] # None /\ hs[pi[1]][pi[2]].colour = c
                      /\ hs[pi[1]][pi[2]].value = v})]]

\* ------------------------------------------------------ select_action_ai
\* A hint value as the AI's dicts key it: a colour or a rank.  The model
\* writes it <<"colour", index in colour_values>> or <<"value", rank>>.
HintKey(hint_type, hint_value) ==
  IF hint_type = "colour" THEN <<"colour", ColourIndex(hint_value)>> ELSE <<"value", hint_value>>

KeyValue(key) == IF key[1] = "colour" THEN colour_values[key[2]] ELSE key[2]

\* The pairs (colour, value) in the order of the two nested for loops.
IdentityOrder ==
  [k \in 1..25 |-> <<colour_values[((k - 1) \div 5) + 1], card_values[((k - 1) % 5) + 1]>>]

MinOf(S) == CHOOSE x \in S : \A y \in S : x <= y

\* The keys one card adds to play_hints_needed / discard_hints_needed, in
\* the order the loops add them: its colour when a flag of another colour is
\* still True, its rank when a flag of another rank is still True.
KeysOfCard(card, card_hints) ==
  LET colourAt == {k \in 1..25 : IdentityOrder[k][1] # card.colour /\ card_hints[IdentityOrder[k]]}
      valueAt == {k \in 1..25 : IdentityOrder[k][2] # card.value /\ card_hints[IdentityOrder[k]]}
      ck == HintKey("colour", card.colour)
      vk == HintKey("value", card.value)
  IN IF colourAt = {} THEN (IF valueAt = {} THEN <<>> ELSE <<vk>>)
     ELSE IF valueAt = {} THEN <<ck>>
     ELSE IF MinOf(colourAt) <= MinOf(valueAt) THEN <<ck, vk>> ELSE <<vk, ck>>

AppendNew(keys, more) ==
  LET F[j \in 0..Len(more)] ==
        IF j = 0 THEN keys
        ELSE IF more[j] \in SeqToSet(F[j - 1]) THEN F[j - 1] ELSE Append(F[j - 1], more[j])
  IN F[Len(more)]

\* The keys of a hints_needed dict in insertion order (the slots of card_ids
\* are visited in ascending order).
hints_needed_keys(hs, h, other_player_id, card_ids) ==
  LET F[i \in 0..HandSize] ==
        IF i = 0 THEN <<>>
        ELSE IF (i - 1) \in card_ids
          THEN AppendNew(F[i - 1], KeysOfCard(hs[other_player_id][i - 1],
                                              h[other_player_id][i - 1]))
          ELSE F[i - 1]
  IN F[HandSize]

\* hints_needed[key]: the slots of card_ids that added key.
hints_needed(hs, h, other_player_id, card_ids, key) ==
  {card_id \in card_ids :
     key \in SeqToSet(KeysOfCard(hs[other_player_id][card_id], h[other_player_id][card_id]))}

\* The grids of the other player after the simulated hint: a slot counts as
\* named when it is in card_ids_to_hint.
updated_hints(h, other_player_id, card_ids_to_hint, key) ==
  [card_id \in ALL_CARD_IDS |->
     hanabi_apply_hint(card_id \in card_ids_to_hint, h[other_player_id][card_id],
                       key[1], KeyValue(key))]

\* good_discard_hints has the key.
good_discard_hint(hs, h, pile, tbl, player_id, other_player_id, card_ids_to_hint, key) ==
  hanabi_get_card_ids_player_can_discard_from_hints(pile, tbl,
     hanabi_get_usable_cards(hs, other_player_id),
     updated_hints(h, other_player_id, card_ids_to_hint, key),
     hanabi_get_card_counts(pile, tbl, hs, {player_id, other_player_id})) # {}

\* good_play_hints has the key.
good_play_hint(hs, h, pile, tbl, player_id, other_player_id, card_ids_to_hint, key) ==
  hanabi_get_card_ids_player_can_play_from_hints(tbl,
     hanabi_get_usable_cards(hs, other_player_id),
     updated_hints(h, other_player_id, card_ids_to_hint, key),
     hanabi_get_card_counts(pile, tbl, hs, {player_id, other_player_id})) # {}

\* best_hint: the first key of the good hints (they are inserted in the
\* order of keys), else the first key that max() finds with the most slots.
best_hint(keys, good, size) ==
  IF \E k \in 1..Len(keys) : good[k]
    THEN keys[MinOf({k \in 1..Len(keys) : good[k]})]
    ELSE keys[MinOf({k \in 1..Len(keys) : \A j \in 1..Len(keys) : size[j] <= size[k]})]

best_discard_hint(hs, h, pile, tbl, player_id, other_player_id) ==
  LET ids == hanabi_get_card_ids_player_can_discard(pile, tbl, hs, other_player_id)
      keys == hints_needed_keys(hs, h, other_player_id, ids)
      needed(k) == hints_needed(hs, h, other_player_id, ids, keys[k])
  IN best_hint(keys,
       [k \in 1..Len(keys) |->
          good_discard_hint(hs, h, pile, tbl, player_id, other_player_id, needed(k), keys[k])],
       [k \in 1..Len(keys) |-> Cardinality(needed(k))])

best_play_hint(hs, h, pile, tbl, player_id, other_player_id) ==
  LET ids == hanabi_get_card_ids_player_can_play(tbl, hs, other_player_id)
      keys == hints_needed_keys(hs, h, other_player_id, ids)
      needed(k) == hints_needed(hs, h, other_player_id, ids, keys[k])
  IN best_hint(keys,
       [k \in 1..Len(keys) |->
          good_play_hint(hs, h, pile, tbl, player_id, other_player_id, needed(k), keys[k])],
       [k \in 1..Len(keys) |-> Cardinality(needed(k))])

NoKey == <<"none", 0>>

\* Faulty variant of hint_value_for: the play hints are looked at first.
hint_value_for_play_first(hs, h, pile, tbl, player_id, other_player_id) ==
  LET can_play_ids == hanabi_get_card_ids_player_can_play(tbl, hs, other_player_id)
      can_discard_ids == hanabi_get_card_ids_player_can_discard(pile, tbl, hs, other_player_id)
      cards_that_need_hints ==
        {card_id \in can_play_ids \cup can_discard_ids :
           KeysOfCard(hs[other_player_id][card_id], h[other_player_id][card_id]) # <<>>}
      cards_that_dont_need_hints ==
        (can_play_ids \cup can_discard_ids) \ cards_that_need_hints
  IN IF cards_that_dont_need_hints = {}
       THEN IF hints_needed_keys(hs, h, other_player_id, can_play_ids) # <<>>
              THEN best_play_hint(hs, h, pile, tbl, player_id, other_player_id)
            ELSE IF hints_needed_keys(hs, h, other_player_id, can_discard_ids) # <<>>
              THEN best_discard_hint(hs, h, pile, tbl, player_id, other_player_id)
            ELSE NoKey
       ELSE NoKey

\* Faulty variant of hint_value_for: a hint is considered as soon as one
\* playable or discardable slot still needs one.
hint_value_for_any_needed(hs, h, pile, tbl, player_id, other_player_id) ==
  LET can_play_ids == hanabi_get_card_ids_player_can_play(tbl, hs, other_player_id)
      can_discard_ids == hanabi_get_card_ids_player_can_discard(pile, tbl, hs, other_player_id)
  IN IF hints_needed_keys(hs, h, other_player_id, can_discard_ids) # <<>>
       THEN best_discard_hint(hs, h, pile, tbl, player_id, other_player_id)
     ELSE IF hints_needed_keys(hs, h, other_player_id, can_play_ids) # <<>>
       THEN best_play_hint(hs, h, pile, tbl, player_id, other_player_id)
     ELSE NoKey

\* One round of the loop over the other players: best_hint for this player,
\* or NoKey when the loop moves on.  A hint is considered only when every
\* playable or discardable slot of the player still needs one; the discard
\* hints are looked at first.
hint_value_for(hs, h, pile, tbl, player_id, other_player_id) ==
  LET can_play_ids == hanabi_get_card_ids_player_can_play(tbl, hs, other_player_id)
      can_discard_ids == hanabi_get_card_ids_player_can_discard(pile, tbl, hs, other_player_id)
      cards_that_need_hints ==
        {card_id \in can_play_ids \cup can_discard_ids :
           KeysOfCard(hs[other_player_id][card_id], h[other_player_id][card_id]) # <<>>}
      cards_that_dont_need_hints ==
        (can_play_ids \cup can_discard_ids) \ cards_that_need_hints
  IN IF cards_that_dont_need_hints = {}
       THEN IF hints_needed_keys(hs, h, other_player_id, can_discard_ids) # <<>>
              THEN best_discard_hint(hs, h, pile, tbl, player_id, other_player_id)
            ELSE IF hints_needed_keys(hs, h, other_player_id, can_play_ids) # <<>>
              THEN best_play_hint(hs, h, pile, tbl, player_id, other_player_id)
            ELSE NoKey
       ELSE NoKey

\* [a for a in actions if a.name == 'hint' and a.args[0] == other_player_id
\*  and a.args[3] == best_hint][0]; an empty list raises IndexError.
hint_action(actions, other_player_id, key) ==
  LET found == {k \in 1..Len(actions) :
                  /\ actions[k].name = "hint"
                  /\ actions[k].args[1] = other_player_id
                  /\ actions[k].args[3] = key[1]
                  /\ actions[k].args[4] = KeyValue(key)}
  IN IF found = {} THEN Action("IndexError", <<>>) ELSE actions[MinOf(found)]

\* [a for a in actions if a.name == name and a.args[0] in card_ids][0]
first_action(actions, name, card_ids) ==
  LET found == {k \in 1..Len(actions) :
                  actions[k].name = name /\ actions[k].args[1] \in card_ids}
  IN IF found = {} THEN Action("IndexError", <<>>) ELSE actions[MinOf(found)]

\* The loop "for i in range(1, num_players)": the hint for the first other
\* player that gets one, None when the loop runs out.
give_hint(hs, h, pile, tbl, player_id, actions) ==
  LET n == Cardinality(DOMAIN hs)
      F[i \in 1..n] ==
        IF i = n THEN NoAction
        ELSE LET other_player_id == (i + player_id) % n
                 key == hint_value_for(hs, h, pile, tbl, player_id, other_player_id)
             IN IF key # NoKey THEN hint_action(actions, other_player_id, key) ELSE F[i + 1]
  IN F[1]

\* Faulty variant of cards_to_play: the player looks at its own cards.
cards_to_play_peeking(hs, h, pile, tbl, player_id) ==
  hanabi_get_card_ids_player_can_play(tbl, hs, player_id)

cards_to_play(hs, h, pile, tbl, player_id) ==
  hanabi_get_card_ids_player_can_play_from_hints(tbl, hanabi_get_usable_cards(hs, player_id),
     h[player_id], hanabi_get_card_counts(pile, tbl, hs, {player_id}))

cards_to_discard(hs, h, pile, tbl, player_id) ==
  hanabi_get_card_ids_player_can_discard_from_hints(pile, tbl,
     hanabi_get_usable_cards(hs, player_id),
     h[player_id], hanabi_get_card_counts(pile, tbl, hs, {player_id}))

\* Faulty variant of ai_branch: a certain discard goes before a certain play.
ai_branch_discard_first(hs, h, pile, tbl, hr, player_id) ==
  IF cards_to_discard(hs, h, pile, tbl, player_id) # {} THEN "discard"
  ELSE IF cards_to_play(hs, h, pile, tbl, player_id) # {} THEN "play"
  ELSE IF hr = 0 THEN "random"
  ELSE "hint"

\* The return statement select_action_ai reaches: "hint" stands for the hint
\* loop, which may also fall off the end and return None.
ai_branch(hs, h, pile, tbl, hr, player_id) ==
  IF cards_to_play(hs, h, pile, tbl, player_id) # {} THEN "play"
  ELSE IF cards_to_discard(hs, h, pile, tbl, player_id) # {} THEN "discard"
  ELSE IF hr = 0 THEN "random"
  ELSE "hint"

\* select_action_ai; choice is the index random.choice draws.
select_action_ai(hs, h, pile, tbl, hr, player_id, actions, choice) ==
  LET branch == ai_branch(hs, h, pile, tbl, hr, player_id) IN
  CASE branch = "play" ->
         first_action(actions, "play", cards_to_play(hs, h, pile, tbl, player_id))
    [] branch = "discard" ->
         first_action(actions, "discard", cards_to_discard(hs, h, pile, tbl, player_id))
    [] branch = "random" -> actions[choice]
    [] branch = "hint" -> give_hint(hs, h, pile, tbl, player_id, actions)

\* ---------------------------------------------- hanabi.py's apply_action
\* Faulty variant of hanabi_draw that deals the top card without popping it.
hanabi_draw_without_pop(player_id, card_id) ==
  IF Len(deck) > 0
    THEN /\ hands' = [hands EXCEPT ![player_id][card_id] = deck[Len(deck)]]
         /\ deck' = deck
    ELSE /\ hands' = [hands EXCEPT ![player_id][card_id] = None]
         /\ deck' = deck

hanabi_draw(player_id, card_id) ==
  IF Len(deck) > 0
    THEN /\ hands' = [hands EXCEPT ![player_id][card_id] = deck[Len(deck)]]
         /\ deck' = SubSeq(deck, 1, Len(deck) - 1)
    ELSE /\ hands' = [hands EXCEPT ![player_id][card_id] = None]
         /\ deck' = deck

\* The keys of play_hints_needed and of discard_hints_needed for one player.
play_hints_needed_keys(hs, h, tbl, other_player_id) ==
  hints_needed_keys(hs, h, other_player_id,
                    hanabi_get_card_ids_player_can_play(tbl, hs, other_player_id))

discard_hints_needed_keys(hs, h, pile, tbl, other_player_id) ==
  hints_needed_keys(hs, h, other_player_id,
                    hanabi_get_card_ids_player_can_discard(pile, tbl, hs, other_player_id))

\* The bookkeeping of one turn of run(): what select_action_ai saw and
\* returned, and the move to the next player unless GameOver was raised.
RunStep(player_id, action, card, misplay) ==
  /\ turns' = turns + 1
  /\ current_player' = IF game_over' = "" THEN (current_player + 1) % num_players
                                          ELSE current_player
  /\ last' = [player |-> player_id, action |-> action, card |-> card,
              certain_play |-> (action.name = "play" /\ action.args[1] \in
                                  cards_to_play(hands, hints, discard_pile, table, player_id)),
              certain_discard |-> (action.name = "discard" /\ action.args[1] \in
                                  cards_to_discard(hands, hints, discard_pile, table, player_id)),
              could_discard |->
                 (cards_to_discard(hands, hints, discard_pile, table, player_id) # {}),
              both_needed |->
                 (/\ action.name = "hint"
                  /\ play_hints_needed_keys(hands, hints, table, action.args[1]) # <<>>
                  /\ discard_hints_needed_keys(hands, hints, discard_pile, table,
                                               action.args[1]) # <<>>),
              misplays |-> IF misplay THEN last.misplays + 1 ELSE 0,
              branch |-> ai_branch(hands, hints, discard_pile, table, hints_remaining,
                                   player_id)]
  /\ UNCHANGED num_cards

\* The discard branch of apply_action: what it does to the game state.
hanabi_discard_branch(player_id, action) ==
  LET card_id == action.args[1]
      card == hands[player_id][card_id]
  IN /\ hints' = [hints EXCEPT ![player_id][card_id] = initial_hints]
     /\ discard_pile' = Append(discard_pile, card)
     /\ hints_remaining' = hints_remaining + 1
     /\ hanabi_draw(player_id, card_id)
     /\ UNCHANGED <<table, mistakes_remaining, game_over>>

hanabi_apply_discard(player_id, action) ==
  /\ hanabi_discard_branch(player_id, action)
  /\ RunStep(player_id, action, hands[player_id][action.args[1]], FALSE)

\* The play branch of apply_action: what it does to the game state.  A
\* misplayed card is taken out of the hand and put nowhere.
hanabi_play_branch(player_id, action) ==
  LET card_id == action.args[1]
      card == hands[player_id][card_id]
  IN /\ hints' = [hints EXCEPT ![player_id][card_id] = initial_hints]
     /\ IF table[card.colour] + 1 = card.value
          THEN /\ table' = [table EXCEPT ![card.colour] = @ + 1]
               /\ UNCHANGED <<mistakes_remaining, game_over>>
               /\ hanabi_draw(player_id, card_id)
          ELSE /\ mistakes_remaining' = mistakes_remaining - 1
               /\ table' = table
               /\ IF mistakes_remaining - 1 = 0
                    THEN /\ game_over' = MistakesReason
                         /\ hands' = [hands EXCEPT ![player_id][card_id] = None]
                         /\ deck' = deck
                    ELSE /\ game_over' = game_over
                         /\ hanabi_draw(player_id, card_id)
     /\ UNCHANGED <<discard_pile, hints_remaining>>

hanabi_apply_play(player_id, action) ==
  LET card == hands[player_id][action.args[1]]
  IN /\ hanabi_play_branch(player_id, action)
     /\ RunStep(player_id, action, card, table[card.colour] + 1 # card.value)

\* Faulty variant: the hint costs no token.
hanabi_apply_hint_action_free(player_id, action) ==
  LET other_player_id == action.args[1]
      card_ids_to_hint == action.args[2]
      hint_type == action.args[3]
      hint_value == action.args[4]
  IN /\ hints_remaining' = hints_remaining
     /\ hints' = [hints EXCEPT ![other_player_id] =
                    [card_id \in ALL_CARD_IDS |->
                       hanabi_apply_hint(card_id \in SeqToSet(card_ids_to_hint),
                                         hints[other_player_id][card_id], hint_type, hint_value)]]
     /\ UNCHANGED <<deck, hands, discard_pile, table, mistakes_remaining, game_over>>
     /\ RunStep(player_id, action, None, FALSE)

\* The hint branch of apply_action: what it does to the game state.
hanabi_hint_branch(player_id, action) ==
  LET other_player_id == action.args[1]
      card_ids_to_hint == action.args[2]
      hint_type == action.args[3]
      hint_value == action.args[4]
  IN /\ hints_remaining' = hints_remaining - 1
     /\ hints' = [hints EXCEPT ![other_player_id] =
                    [card_id \in ALL_CARD_IDS |->
                       hanabi_apply_hint(card_id \in SeqToSet(card_ids_to_hint),
                                         hints[other_player_id][card_id], hint_type, hint_value)]]
     /\ UNCHANGED <<deck, hands, discard_pile, table, mistakes_remaining, game_over>>

hanabi_apply_hint_action(player_id, action) ==
  /\ hanabi_hint_branch(player_id, action)
  /\ RunStep(player_id, action, None, FALSE)

hanabi_apply_action(player_id, action) ==
  CASE action.name = "discard" -> hanabi_apply_discard(player_id, action)
    [] action.name = "play" -> hanabi_apply_play(player_id, action)
    [] action.name = "hint" -> hanabi_apply_hint_action(player_id, action)

\* ----------------------------------------------------------------- run()
\* The decks run() is started on.
RunShuffles == {<<3, 37>>, <<13, 17>>, <<49, 31>>}

RunInit ==
  \E sh \in RunShuffles :
    LET d == Shuffled(sh[1], sh[2]) IN
    /\ deck = SubSeq(d, 1, Len(d) - HandSize * num_players)
    /\ hands = [p \in 0..(num_players - 1) |->
                  [i \in ALL_CARD_IDS |-> d[Len(d) - (HandSize * p + i)]]]
    /\ discard_pile = <<>>
    /\ table = [c \in Colours |-> 0]
    /\ hints_remaining = InitialHintTokens
    /\ mistakes_remaining = InitialMistakeTokens
    /\ hints = [p \in 0..(num_players - 1) |-> [i \in ALL_CARD_IDS |-> initial_hints]]
    /\ game_over = ""
    /\ num_cards = FullDeck
    /\ current_player = 0
    /\ turns = 0
    /\ last = [player |-> 0, action |-> NoAction, card |-> None,
               certain_play |-> FALSE, certain_discard |-> FALSE, could_discard |-> FALSE,
               both_needed |-> FALSE, misplays |-> 0, branch |-> ""]

RunAvailable == hanabi_get_available_actions(hands, hints_remaining, current_player)

RunBranch ==
  ai_branch(hands, hints, discard_pile, table, hints_remaining, current_player)

\* action = game.select_action_ai(None, current_player, actions)
Selected(choice) ==
  select_action_ai(hands, hints, discard_pile, table, hints_remaining, current_player,
                   RunAvailable, choice)

NoActionsReason == "no more available actions"

NoneSelectedReason == "game over: there are no more available actions"

\* "if not actions: break"
NoActions ==
  /\ game_over = ""
  /\ RunAvailable = <<>>
  /\ game_over' = NoActionsReason
  /\ UNCHANGED <<deck, hands, discard_pile, table, hints_remaining, mistakes_remaining,
                 hints, num_cards, current_player, turns, last>>

AIPlay ==
  /\ game_over = ""
  /\ RunAvailable # <<>>
  /\ RunBranch = "play"
  /\ hanabi_apply_action(current_player, Selected(1))

AIDiscard ==
  /\ game_over = ""
  /\ RunAvailable # <<>>
  /\ RunBranch = "discard"
  /\ hanabi_apply_action(current_player, Selected(1))

\* hints_remaining == 0: random.choice over the legal actions.
AIRandom ==
  /\ game_over = ""
  /\ RunAvailable # <<>>
  /\ RunBranch = "random"
  /\ \E choice \in 1..Len(RunAvailable) : hanabi_apply_action(current_player, Selected(choice))

AIHint ==
  /\ game_over = ""
  /\ RunAvailable # <<>>
  /\ RunBranch = "hint"
  /\ Selected(1).name = "hint"
  /\ hanabi_apply_action(current_player, Selected(1))

\* "if not action: return": the hint loop found no hint to give.
AINone ==
  /\ game_over = ""
  /\ RunAvailable # <<>>
  /\ RunBranch = "hint"
  /\ Selected(1).name = "none"
  /\ game_over' = NoneSelectedReason
  /\ UNCHANGED <<deck, hands, discard_pile, table, hints_remaining, mistakes_remaining,
                 hints, num_cards, current_player, turns, last>>

RunNext == NoActions \/ AIPlay \/ AIDiscard \/ AIRandom \/ AIHint \/ AINone

RunSpec == RunInit /\ [][RunNext]_vars

\* =============================================================== properties
SumTable ==
  LET F[k \in 0..Len(colour_values)] ==
        IF k = 0 THEN 0 ELSE F[k - 1] + table[colour_values[k]]
  IN F[Len(colour_values)]

NonEmptySlots == {pi \in (DOMAIN hands) \X ALL_CARD_IDS : hands[pi[1]][pi[2]] # None}

CardCount == Len(deck) + Cardinality(NonEmptySlots) + Len(discard_pile) + SumTable

LastIs(name) == last.action.name = name

\* The card of the last discard or misplay was, once on the pile, the last
\* copy of an identity that is not on the table.
LastCardWasLastCopy ==
  /\ last.card.value > table[last.card.colour]
  /\ get_count(discard_pile, last.card.colour, last.card.value)
       = CARD_COUNTS[last.card.colour][last.card.value]

\* C1: conservation.  In every reachable state, the state left behind by a
\* GameOver included, the cards of the deck, the non-empty hand slots, the
\* discard pile and the table add up to the number of cards the constructor
\* was given (50 for a full deck).
C1_Conservation ==
  /\ CardCount = num_cards
  /\ num_cards = FullDeck => CardCount = 50

C1_Witness ==
  /\ num_cards = FullDeck
  /\ game_over # ""
  /\ SumTable > 0
  /\ Len(discard_pile) > 0
  /\ CardCount = 50

\* C2: certain-play soundness.  A play of a slot that the player's own hints
\* and the census of the cards it can see make certainly playable advances
\* the table of the card's colour by one and costs no mistake token.
C2_CertainPlaySound ==
  [][(last'.action.name = "play" /\ last'.certain_play /\ turns' = turns + 1)
       => /\ table' = [table EXCEPT ![last'.card.colour] = @ + 1]
          /\ last'.card.value = table'[last'.card.colour]
          /\ mistakes_remaining' = mistakes_remaining
          /\ game_over' = ""]_vars

C2_Witness ==
  /\ LastIs("play")
  /\ last.certain_play
  /\ table[last.card.colour] = last.card.value
  /\ mistakes_remaining = InitialMistakeTokens

\* C3: truth preservation.  The grid of every non-empty slot flags the
\* identity of the card actually held there.
C3_TruthPreserved ==
  \A p \in Players, i \in ALL_CARD_IDS :
    hands[p][i] # None => hints[p][i][<<hands[p][i].colour, hands[p][i].value>>]

C3_Witness ==
  /\ LastIs("hint")
  /\ \E p \in Players, i \in ALL_CARD_IDS :
       /\ hands[p][i] # None
       /\ hints[p][i] # initial_hints
       /\ hints[p][i][<<hands[p][i].colour, hands[p][i].value>>]

\* C4: hints_remaining stays within 0..8 (stated for the games dealt from a
\* full 50-card deck).
C4_HintsAtMostEight ==
  num_cards = FullDeck => (hints_remaining >= 0 /\ hints_remaining <= 8)

\* C5: last-copy discard.  After a discard, GameOver (last copy) has been
\* raised exactly when the card's rank is above the table of its colour and
\* the pile now holds every copy of its identity; no other GameOver comes
\* out of a discard.
C5_LastCopyDiscard ==
  LastIs("discard") =>
    /\ game_over \in {"", LastCopyReason}
    /\ (game_over = LastCopyReason) <=> LastCardWasLastCopy

\* The third copy of a rank-1 card is discarded while its colour's table is 0.
C5_Witness ==
  /\ LastIs("discard")
  /\ game_over = LastCopyReason
  /\ last.card.value = 1
  /\ table[last.card.colour] = 0
  /\ get_count(discard_pile, last.card.colour, 1) = 3

ActedSlot == <<last.player, last.action.args[1]>>

C7_HintMonotone ==
  [][turns' = turns + 1 =>
       /\ last'.action.name = "hint" =>
            \A p \in Players, i \in ALL_CARD_IDS, id \in Identities :
              hints'[p][i][id] => hints[p][i][id]
       /\ \A p \in Players, i \in ALL_CARD_IDS :
            (\E id \in Identities : ~hints[p][i][id] /\ hints'[p][i][id]) =>
               /\ last'.action.name \in {"discard", "play"}
               /\ <<p, i>> = ActedSlot'
       /\ last'.action.name \in {"discard", "play"} =>
            hints'[ActedSlot'[1]][ActedSlot'[2]] = initial_hints]_vars

\* A narrowed slot was played or discarded with the deck exhausted: the slot
\* is empty, the game goes on, and the grid is all True again although the
\* same player's other slots still carry the hint.
C7_Witness ==
  /\ last.action.name \in {"discard", "play"}
  /\ game_over = ""
  /\ Len(deck) = 0
  /\ hands[ActedSlot[1]][ActedSlot[2]] = None
  /\ hints[ActedSlot[1]][ActedSlot[2]] = initial_hints
  /\ \A i \in ALL_CARD_IDS \ {ActedSlot[2]} : hints[ActedSlot[1]][i] # initial_hints

\* The slots of a hand that a hint of this type and value is true of.
Matching(hand, hint_type, hint_value) ==
  {i \in ALL_CARD_IDS :
     /\ hand[i] # None
     /\ IF hint_type = "colour" THEN hand[i].colour = hint_value
                                ELSE hand[i].value = hint_value}

HintsOffered(P, Q, hint_type, hint_value) ==
  LET actions == get_available_actions(hands, hints_remaining, P) IN
  {k \in 1..Len(actions) :
     /\ actions[k].name = "hint"
     /\ actions[k].args[1] = Q
     /\ actions[k].args[3] = hint_type
     /\ actions[k].args[4] = hint_value}

\* C8: hint actions target other players only.  No hint action offered to P
\* names P, and for every other player Q and every colour and rank present in
\* Q's hand exactly one hint action is offered (stated for the games dealt
\* from a full 50-card deck).
C8_HintsTargetOthers ==
  num_cards = FullDeck =>
  \A P \in Players :
    LET actions == get_available_actions(hands, hints_remaining, P) IN
    /\ \A k \in 1..Len(actions) : actions[k].name = "hint" => actions[k].args[1] # P
    /\ hints_remaining > 0 =>
         \A Q \in Players \ {P}, hint_type \in HintTypes :
           \A hint_value \in HintValues(hint_type) :
             Matching(hands[Q], hint_type, hint_value) # {}
               => Cardinality(HintsOffered(P, Q, hint_type, hint_value)) = 1

\* C9: hint actions are maximal and truthful.  Every hint action offered
\* names exactly the non-empty slots of the target that have the hinted
\* colour or rank, names at least one, and none is offered with no hint
\* token left (the generator is evaluated on the hands reached, with the
\* token counter of the state and with every counter value 0..8).
C9_HintsMaximalTruthful ==
  \A P \in Players, hr \in (0..InitialHintTokens) \cup {hints_remaining} :
    LET actions == get_available_actions(hands, hr, P) IN
    \A k \in 1..Len(actions) :
      actions[k].name = "hint" =>
        /\ hr > 0
        /\ actions[k].args[2] # <<>>
        /\ SeqToSet(actions[k].args[2])
             = Matching(hands[actions[k].args[1]], actions[k].args[3], actions[k].args[4])
        /\ Len(actions[k].args[2]) = Cardinality(SeqToSet(actions[k].args[2]))

\* A hand with an empty slot is offered a hint that names two or more slots.
C9_Witness ==
  /\ game_over = ""
  /\ hints_remaining > 0
  /\ \E P \in Players :
       LET actions == get_available_actions(hands, hints_remaining, P) IN
       \E k \in 1..Len(actions) :
         /\ actions[k].name = "hint"
         /\ Len(actions[k].args[2]) >= 2
         /\ \E i \in ALL_CARD_IDS : hands[actions[k].args[1]][i] = None

\* C10: the apply_hint rule.  The grid apply_hint returns keeps an identity
\* exactly when the old grid had it and "the identity matches the hint value
\* on the hinted dimension" agrees with the inclusion flag.
C10_ApplyHintRule ==
  LastIs("apply_hint") =>
    LET do_hint == last.action.args[1]
        old == last.action.args[2]
        hint_type == last.action.args[3]
        hint_value == last.action.args[4]
    IN /\ DOMAIN hints[0][0] = Identities
       /\ \A id \in Identities :
            hints[0][0][id] =
              (old[id] /\ ((IF hint_type = "colour" THEN id[1] = hint_value
                                                    ELSE id[2] = hint_value) <=> do_hint))

\* A grid that already had False flags went through a hint that did not
\* include the slot, and lost some flags and kept others.
C10_Witness ==
  /\ LastIs("apply_hint")
  /\ ~last.action.args[1]
  /\ \E id \in Identities : ~last.action.args[2][id]
  /\ \E id \in Identities : last.action.args[2][id] /\ ~hints[0][0][id]
  /\ \E id \in Identities : hints[0][0][id]

\* The step is a colour hint; its target, slots and colour.
ColourHintStep == turns' = turns + 1 /\ last'.action.name = "hint" /\ last'.action.args[3] = "colour"

\* C11 as stated: a hint (colour = red) naming slots 0 and 2 clears every
\* (red, *) flag at slots 1, 3 and 4 and leaves every non-red flag of slots 0
\* and 2 as it was (stated for the games dealt from a full 50-card deck).
C11_AsStated ==
  [][(/\ ColourHintStep
      /\ num_cards = FullDeck
      /\ last'.action.args[4] = "red"
      /\ last'.action.args[2] = <<0, 2>>)
       => LET Q == last'.action.args[1] IN
          /\ \A i \in {1, 3, 4}, v \in Values : ~hints'[Q][i][<<"red", v>>]
          /\ \A i \in {0, 2}, id \in Identities :
               id[1] # "red" => hints'[Q][i][id] = hints[Q][i][id]]_vars

\* C11 amended: a colour hint clears, at the slots it does not name, every
\* flag of the hinted colour and leaves the other flags as they were; at the
\* slots it names it clears every flag of another colour and leaves the flags
\* of the hinted colour as they were.  Grids of other players do not change.
C11_ColourHint ==
  [][ColourHintStep
       => LET Q == last'.action.args[1]
              S == SeqToSet(last'.action.args[2])
              c == last'.action.args[4]
          IN /\ \A i \in ALL_CARD_IDS \ S, id \in Identities :
                  hints'[Q][i][id] = (IF id[1] = c THEN FALSE ELSE hints[Q][i][id])
             /\ \A i \in S, id \in Identities :
                  hints'[Q][i][id] = (IF id[1] # c THEN FALSE ELSE hints[Q][i][id])
             /\ \A p \in Players \ {Q} : hints'[p] = hints[p]]_vars

\* The scenario: red named at exactly slots 0 and 2 of a full-deck game.
C11_Witness ==
  /\ num_cards = FullDeck
  /\ LastIs("hint")
  /\ last.action.args[3] = "colour"
  /\ last.action.args[4] = "red"
  /\ last.action.args[2] = <<0, 2>>
  /\ \A i \in {1, 3, 4}, v \in Values : ~hints[last.action.args[1]][i][<<"red", v>>]
  /\ \A i \in {0, 2} : ~hints[last.action.args[1]][i][<<"blue", 1>>]
  /\ \A i \in {0, 2} : hints[last.action.args[1]][i][<<"red", 1>>]

\* The variant of a game: every card still in the deck or in a hand counts
\* two, every hint token one.
Measure ==
  2 * (Len(deck) + Cardinality(NonEmptySlots)) + hints_remaining

\* C12: finite termination.  Every apply_action call lowers Measure, which
\* never goes below 0: a discard moves a card out (-2) and adds a token (+1),
\* a play moves a card out, a hint takes a token.  Play therefore stops after
\* at most 2 * num_cards + 8 calls, hints and discards alternating included.
C12_Terminates ==
  [][turns' = turns + 1 => (Measure' < Measure /\ Measure' >= 0)]_vars

\* A hint and a discard have cancelled out on the token counter, and the
\* variant has gone down all the same.
C12_Witness ==
  /\ LastIs("discard")
  /\ turns >= 2
  /\ game_over = ""
  /\ hints_remaining = InitialHintTokens
  /\ Measure < 2 * num_cards + InitialHintTokens

\* get_required_cards on one table: one entry per colour below rank 5, the
\* next rank of that colour, and nothing else.
RequiredOK(tbl) ==
  LET r == get_required_cards(tbl) IN
  /\ r \subseteq Colours \X Values
  /\ \A c \in Colours, v \in 0..6 : <<c, v>> \in r <=> (tbl[c] < 5 /\ v = tbl[c] + 1)
  /\ \A x \in r, y \in r : x[1] = y[1] => x = y
  /\ Cardinality(r) = Cardinality({c \in Colours : tbl[c] < 5})
  /\ Cardinality(r) <= 5

Tables == [Colours -> 0..5]

\* C14: required cards.  On every table with ranks 0..5 (computed once per
\* game, the function reads nothing but the table) and on the table of every
\* reachable state, get_required_cards is {(c, table[c]+1) : table[c] < 5}: at
\* most 5 entries, at most one per colour, ranks in 1..5.  A play of a card
\* whose identity is in that set advances its colour by exactly one, leaves
\* every other colour and the mistake tokens alone and raises nothing; and
\* 0 <= table[c] <= 5 throughout.
C14_RequiredCards ==
  /\ [](/\ turns = 0 => \A tbl \in Tables : RequiredOK(tbl)
        /\ RequiredOK(table)
        /\ \A c \in Colours : table[c] \in 0..5)
  /\ [][(/\ turns' = turns + 1
         /\ last'.action.name = "play"
         /\ <<last'.card.colour, last'.card.value>> \in get_required_cards(table))
          => /\ table' = [table EXCEPT ![last'.card.colour] = @ + 1]
             /\ mistakes_remaining' = mistakes_remaining
             /\ discard_pile' = discard_pile
             /\ game_over' = ""]_vars

\* Two required cards have been played one after the other, the second onto
\* a table that already held a card.
C14_Witness ==
  /\ LastIs("play")
  /\ last.misplays = 0
  /\ table[last.card.colour] = last.card.value
  /\ SumTable >= 2
  /\ mistakes_remaining = InitialMistakeTokens
  /\ <<last.card.colour, last.card.value + 1>> \in get_required_cards(table)

\* The test of spec 4.3 for a certain discard: every possible identity is
\* already played or has more than one copy outside the discard pile.
EveryPossiblePlayedOrSpare(P, s) ==
  \A id \in possible_cards_from_hints(hints[P][s],
                                      get_card_counts(discard_pile, table, hands, {P})) :
     \/ id[2] <= table[id[1]]
     \/ CARD_COUNTS[id[1]][id[2]] - get_count(discard_pile, id[1], id[2]) > 1

\* C19: certain-discard safety.  While the game is in progress, a slot that
\* get_card_ids_player_can_discard_from_hints yields for a player (own grids,
\* census without the own hand) holds a card whose discard does not raise the
\* last-copy GameOver, and the slots yielded are exactly those that pass the
\* test of spec 4.3.  A discard of such a slot by the player to move leaves
\* the game in progress.
C19_CertainDiscardSafe ==
  /\ [](game_over = "" =>
          \A P \in Players, s \in ALL_CARD_IDS :
             hands[P][s] # None =>
               /\ s \in DiscardIds(P) <=> EveryPossiblePlayedOrSpare(P, s)
               /\ s \in DiscardIds(P) => ~DiscardRaises(discard_pile, table, hands[P][s]))
  /\ [][(/\ turns' = turns + 1
         /\ last'.action.name = "discard"
         /\ last'.action.args[1] \in DiscardIds(current_player))
          => (game_over' = "" /\ hints_remaining' = hints_remaining + 1)]_vars

\* A player discarded a slot that its hints made certainly discardable while
\* another of its slots was not.
C19_Witness ==
  /\ LastIs("discard")
  /\ last.certain_discard
  /\ game_over = ""
  /\ \E P \in Players, s \in ALL_CARD_IDS : hands[P][s] # None /\ s \notin DiscardIds(P)
  /\ \E P \in Players, s \in ALL_CARD_IDS : hands[P][s] # None /\ s \in DiscardIds(P)

\* C20 as stated (for the games dealt from a full deck): for every player Q
\* and non-empty slot s, get_card_ids_player_can_discard(Q) yields s iff the
\* from-hints discard test holds of the one-element possibility set made of
\* the slot's true identity, and get_card_ids_player_can_play(Q) yields s iff
\* the from-hints play test holds of that set.
C20_GroundTruthSame ==
  num_cards = FullDeck =>
    \A Q \in Players, s \in ALL_CARD_IDS :
       hands[Q][s] # None =>
         LET truth == {<<hands[Q][s].colour, hands[Q][s].value>>} IN
         /\ s \in get_card_ids_player_can_discard(discard_pile, table, hands, Q)
              <=> can_discard(discard_pile, table, truth)
         /\ s \in get_card_ids_player_can_play(table, hands, Q)
              <=> (\A card \in truth : card \in get_required_cards(table))

\* C13 as stated: run() with 5 players ends within 50 + num_players turns.
C13_AsStated == turns <= FullDeck + num_players

\* The loop of run() can go on: there is no legal action (break), or
\* select_action_ai returns an action to apply or None (return); it raises
\* no exception.
RunCanGoOn ==
  \/ RunAvailable = <<>>
  \/ RunBranch \in {"play", "discard", "random"}
  \/ Selected(1).name \in {"hint", "none"}

\* C13 amended: run() with 5 players always returns within 2 * 50 + 8 turns,
\* with a score in 0..25.  Every turn lowers Measure by one at least, which
\* starts at 108 and stays >= 0, so turns + Measure never exceeds 108; and a
\* run that has not returned always has a next step.
C13_TurnBound ==
  /\ turns + Measure <= 2 * FullDeck + InitialHintTokens
  /\ Measure >= 0
  /\ turns <= 2 * FullDeck + InitialHintTokens
  /\ SumTable \in 0..25
  /\ game_over = "" => RunCanGoOn

\* A run that ended after more than 50 + 5 turns.
C13_Witness ==
  /\ game_over # ""
  /\ turns > FullDeck + num_players
  /\ SumTable > 0

\* C15 as stated: in the game of hanabi.py the deck, the non-empty hand
\* slots, the discard pile and the table add up to 50 in every state.
C15_HanabiConservation ==
  Len(deck) + Cardinality(NonEmptySlots) + Len(discard_pile) + SumTable = 50

\* C16: the AI's priority order.  The action of a turn is play of the lowest
\* certainly playable slot (own grids, census without the own hand) when
\* there is one; else discard of the lowest certainly discardable slot when
\* there is one; else, with no hint token left, a member of the legal
\* actions; and a hint only when none of the three applies.
C16_AIPriority ==
  [][turns' = turns + 1 =>
       LET P == current_player
           usable == hanabi_get_usable_cards(hands, P)
           counts == hanabi_get_card_counts(discard_pile, table, hands, {P})
           tp == hanabi_get_card_ids_player_can_play_from_hints(table, usable, hints[P], counts)
           td == hanabi_get_card_ids_player_can_discard_from_hints(discard_pile, table, usable,
                                                                   hints[P], counts)
           a == last'.action
       IN /\ tp # {} => (a.name = "play" /\ a.args[1] = MinOf(tp))
          /\ (tp = {} /\ td # {}) => (a.name = "discard" /\ a.args[1] = MinOf(td))
          /\ (tp = {} /\ td = {} /\ hints_remaining = 0)
               => \E k \in 1..Len(RunAvailable) :
                     RunAvailable[k].name = a.name /\ RunAvailable[k].args = a.args
          /\ a.name = "hint" => (tp = {} /\ td = {} /\ hints_remaining # 0)]_vars

\* A certain play was chosen by a player that also had a certain discard.
C16_Witness ==
  /\ last.branch = "play"
  /\ last.certain_play
  /\ last.could_discard

\* Two actions are the same call.
SameAction(a, b) ==
  /\ a.name = b.name
  /\ a.name \in {"discard", "play"} => a.args[1] = b.args[1]
  /\ a.name = "hint" =>
       /\ a.args[1] = b.args[1]
       /\ a.args[2] = b.args[2]
       /\ a.args[3] = b.args[3]
       /\ HintKey(a.args[3], a.args[4]) = HintKey(b.args[3], b.args[4])

\* Other hands the player to move could hold in the same slots: two of its
\* cards swapped, or one of its cards replaced by any identity.
OtherOwnHands(P) ==
  LET own == {i \in ALL_CARD_IDS : hands[P][i] # None} IN
  {[hands[P] EXCEPT ![i] = hands[P][j], ![j] = hands[P][i]] : i \in own, j \in own}
  \cup {[hands[P] EXCEPT ![i] = Card(id[1], id[2])] : i \in own, id \in Identities}

\* C17: the AI does not look at its own hand.  In every state of a run, with
\* the cards of the player to move swapped or replaced and everything else
\* the same, select_action_ai on that state's own get_available_actions list
\* returns the same action (the same index for the random fallback).
C17_OwnHandUnseen ==
  (game_over = "" /\ RunAvailable # <<>>) =>
    \A other \in OtherOwnHands(current_player) :
      LET hs == [hands EXCEPT ![current_player] = other]
          actions == hanabi_get_available_actions(hs, hints_remaining, current_player)
      IN \A choice \in (IF RunBranch = "random" THEN 1..Len(RunAvailable) ELSE {1}) :
           SameAction(select_action_ai(hs, hints, discard_pile, table, hints_remaining,
                                       current_player, actions, choice),
                      Selected(choice))

\* The player that just gave a hint holds a card that is playable, which it
\* did not play.
C17_Witness ==
  /\ last.branch = "hint"
  /\ LastIs("hint")
  /\ hanabi_get_card_ids_player_can_play(table, hands, last.player) # {}

\* The hint value of the step, and whether it is a choice from the
\* candidates keys: a good hint when there is one, else one that covers the
\* most slots.
ChosenFrom(key, keys, good, size) ==
  /\ \E k \in 1..Len(keys) : keys[k] = key
  /\ \A k \in 1..Len(keys) :
       keys[k] = key =>
         IF \E j \in 1..Len(keys) : good[j] THEN good[k]
         ELSE \A j \in 1..Len(keys) : size[j] <= size[k]

ChosenFromPlayHints(player_id, other_player_id, key) ==
  LET ids == hanabi_get_card_ids_player_can_play(table, hands, other_player_id)
      keys == hints_needed_keys(hands, hints, other_player_id, ids)
      needed(k) == hints_needed(hands, hints, other_player_id, ids, keys[k])
  IN ChosenFrom(key, keys,
       [k \in 1..Len(keys) |->
          good_play_hint(hands, hints, discard_pile, table, player_id, other_player_id,
                         needed(k), keys[k])],
       [k \in 1..Len(keys) |-> Cardinality(needed(k))])

ChosenFromDiscardHints(player_id, other_player_id, key) ==
  LET ids == hanabi_get_card_ids_player_can_discard(discard_pile, table, hands, other_player_id)
      keys == hints_needed_keys(hands, hints, other_player_id, ids)
      needed(k) == hints_needed(hands, hints, other_player_id, ids, keys[k])
  IN ChosenFrom(key, keys,
       [k \in 1..Len(keys) |->
          good_discard_hint(hands, hints, discard_pile, table, player_id, other_player_id,
                            needed(k), keys[k])],
       [k \in 1..Len(keys) |-> Cardinality(needed(k))])

\* The step is a hint of the AI to a player that has both a playable and a
\* discardable slot in need of a hint.
HintWithBothNeeded ==
  /\ turns' = turns + 1
  /\ last'.action.name = "hint"
  /\ play_hints_needed_keys(hands, hints, table, last'.action.args[1]) # <<>>
  /\ discard_hints_needed_keys(hands, hints, discard_pile, table, last'.action.args[1]) # <<>>

\* C18 as stated: with both kinds of hint needed, the hint value returned is
\* chosen from the play-hint candidates.
C18_PlayFirst ==
  [][HintWithBothNeeded =>
       ChosenFromPlayHints(current_player, last'.action.args[1],
                           HintKey(last'.action.args[3], last'.action.args[4]))]_vars

\* C18 amended: with both kinds of hint needed, the hint value returned is
\* chosen from the discard-hint candidates (a good discard hint, else the
\* discard-hint value that covers the most slots).
C18_DiscardFirst ==
  [][HintWithBothNeeded =>
       ChosenFromDiscardHints(current_player, last'.action.args[1],
                              HintKey(last'.action.args[3], last'.action.args[4]))]_vars

C18_Witness ==
  /\ LastIs("hint")
  /\ last.branch = "hint"
  /\ last.both_needed

\* The slots of player o that are playable or discardable in truth, and
\* whether such a slot is fully covered: no flag of its grid is True for an
\* identity that differs from its card in colour or rank.
ActionableSlots(o) ==
  hanabi_get_card_ids_player_can_play(table, hands, o)
    \cup hanabi_get_card_ids_player_can_discard(discard_pile, table, hands, o)

FullyCovered(o, s) ==
  \A id \in Identities : hints[o][s][id] => id = <<hands[o][s].colour, hands[o][s].value>>

\* The place of player q in the loop of player P over the other players.
LoopIndex(P, q) == (q - P + num_players) % num_players

\* The step is select_action_ai going through its hint loop: it ends with a
\* hint that is applied, or with None.
HintLoopStep ==
  /\ game_over = ""
  /\ RunAvailable # <<>>
  /\ RunBranch = "hint"
  /\ (turns' = turns + 1 \/ game_over' = NoneSelectedReason)

\* The players the loop tried without returning a hint to them.
PassedOver ==
  {q \in (DOMAIN hands) \ {current_player} :
     turns' = turns + 1 =>
       LoopIndex(current_player, q) < LoopIndex(current_player, last'.action.args[1])}

\* C21 as stated: the hint loop passes over a player only if every playable
\* or discardable slot of that player is fully covered, and it returns a hint
\* to the first examined player whenever that player has a playable or
\* discardable slot that still needs a hint.
C21_AsStated ==
  [][HintLoopStep =>
       LET first == (current_player + 1) % num_players IN
       /\ \A q \in PassedOver : \A s \in ActionableSlots(q) : FullyCovered(q, s)
       /\ (\E s \in ActionableSlots(first) : ~FullyCovered(first, s))
            => (turns' = turns + 1 /\ last'.action.args[1] = first)]_vars

\* C21 amended: the hint loop passes over a player exactly when that player
\* has no playable or discardable slot, or has one that is fully covered
\* (other slots of the player may still need a hint); the hint returned goes
\* to the first player in loop order that has such slots and none of them
\* fully covered.
C21_PassOver ==
  [][HintLoopStep =>
       /\ \A q \in PassedOver :
            \/ ActionableSlots(q) = {}
            \/ \E s \in ActionableSlots(q) : FullyCovered(q, s)
       /\ turns' = turns + 1 =>
            /\ last'.action.name = "hint"
            /\ ActionableSlots(last'.action.args[1]) # {}
            /\ \A s \in ActionableSlots(last'.action.args[1]) :
                 ~FullyCovered(last'.action.args[1], s)]_vars

\* A hint went past the next player, who had a fully covered slot and also a
\* playable or discardable slot still in need of a hint.
C21_Witness ==
  /\ LastIs("hint")
  /\ last.branch = "hint"
  /\ LET first == (last.player + 1) % num_players IN
     /\ last.action.args[1] # first
     /\ \E s \in ActionableSlots(first) : FullyCovered(first, s)
     /\ \E s \in ActionableSlots(first) : ~FullyCovered(first, s)

\* The other players the hint loop of the current player reaches: every
\* player before them in loop order is passed over.
ExaminedPlayers ==
  {o \in (DOMAIN hands) \ {current_player} :
     \A q \in (DOMAIN hands) \ {current_player} :
        LoopIndex(current_player, q) < LoopIndex(current_player, o)
          => hint_value_for(hands, hints, discard_pile, table, current_player, q) = NoKey}

\* The grids of player o after apply_action of the legal hint action for
\* the hint value key.
GivenHints(o, key) ==
  LET action == hint_action(RunAvailable, o, key) IN
  [card_id \in ALL_CARD_IDS |->
     hanabi_apply_hint(card_id \in SeqToSet(action.args[2]), hints[o][card_id],
                       action.args[3], action.args[4])]

\* The simulation of key over the slots ids that need it gives the grids
\* the legal hint action gives.
SimulationIsGiven(o, ids, key) ==
  updated_hints(hints, o, hints_needed(hands, hints, o, ids, key), key) = GivenHints(o, key)

\* C22: whenever the AI goes through its hint loop, for every player it
\* examines and every candidate hint value (the keys of discard_hints_needed
\* and of play_hints_needed), the simulated grids equal the grids that
\* apply_action of the legal hint action for that player and value produces.
C22_SimulatedIsGiven ==
  (game_over = "" /\ RunAvailable # <<>> /\ RunBranch = "hint") =>
    \A o \in ExaminedPlayers :
      /\ \A key \in SeqToSet(discard_hints_needed_keys(hands, hints, discard_pile, table, o)) :
           SimulationIsGiven(o, hanabi_get_card_ids_player_can_discard(discard_pile, table, hands, o), key)
      /\ \A key \in SeqToSet(play_hints_needed_keys(hands, hints, table, o)) :
           SimulationIsGiven(o, hanabi_get_card_ids_player_can_play(table, hands, o), key)

\* C23: a hint takes exactly one hint token, replaces the grid of each of
\* the 5 slots of the target, empty ones included, by apply_hint with the
\* slot's membership in the action's slots as flag, leaves the deck, the
\* hands, the discard pile, the table, the mistake tokens and the grids of
\* the other players as they were, and raises no GameOver.
C23_HintFrame ==
  [][(turns' = turns + 1 /\ last'.action.name = "hint") =>
       LET target == last'.action.args[1]
           slots == SeqToSet(last'.action.args[2])
       IN /\ hints_remaining' = hints_remaining - 1
          /\ \A s \in ALL_CARD_IDS :
               hints'[target][s] =
                 apply_hint(s \in slots, hints[target][s],
                            last'.action.args[3], last'.action.args[4])
          /\ \A q \in Players \ {target} : hints'[q] = hints[q]
          /\ deck' = deck
          /\ hands' = hands
          /\ discard_pile' = discard_pile
          /\ table' = table
          /\ mistakes_remaining' = mistakes_remaining
          /\ game_over = ""
          /\ game_over' = ""]_vars

\* A hint was given to a player with an empty slot, and the grid of that
\* slot is no longer the fresh one.
C23_Witness ==
  /\ LastIs("hint")
  /\ game_over = ""
  /\ \E s \in ALL_CARD_IDS :
       /\ hands[last.action.args[1]][s] = None
       /\ hints[last.action.args[1]][s] # initial_hints

\* C24: while no GameOver has been raised and the deck is non-empty, every
\* slot of every hand holds a card; an empty slot stays empty, and the deck
\* never grows.
C24_EmptyOnlyAfterDeck ==
  /\ [](game_over = "" /\ Len(deck) > 0 =>
          \A p \in Players, s \in ALL_CARD_IDS : hands[p][s] # None)
  /\ [][/\ \A p \in Players, s \in ALL_CARD_IDS :
             hands[p][s] = None => hands'[p][s] = None
        /\ Len(deck') <= Len(deck)]_vars

\* The game goes on with the deck run out during the game (the game started
\* with cards left to draw), and two slots are empty.
C24_Witness ==
  /\ game_over = ""
  /\ num_cards > HandSize * NumPlayers
  /\ Len(deck) = 0
  /\ Cardinality(NonEmptySlots) <= HandSize * NumPlayers - 2

\* The possibility set of slot s of player P as P works it out: the grid of
\* the slot filtered by the counts of the cards P can see.
OwnPossible(P, s) ==
  possible_cards_from_hints(hints[P][s], get_card_counts(discard_pile, table, hands, {P}))

\* C25: for every player P and every non-empty slot s of P, the possibility
\* set P works out for s contains the identity of the card in the slot, so it
\* is never empty.
C25_OwnPossibleHasTruth ==
  \A P \in Players, s \in ALL_CARD_IDS :
    hands[P][s] # None =>
      /\ <<hands[P][s].colour, hands[P][s].value>> \in OwnPossible(P, s)
      /\ OwnPossible(P, s) # {}

\* A slot that a hint has narrowed and from which the counts remove a
\* further identity the grid still allows.
C25_Witness ==
  \E P \in Players, s \in ALL_CARD_IDS :
    /\ hands[P][s] # None
    /\ hints[P][s] # initial_hints
    /\ \E id \in Identities : hints[P][s][id] /\ id \notin OwnPossible(P, s)
    /\ <<hands[P][s].colour, hands[P][s].value>> \in OwnPossible(P, s)

\* The card is not yet on the table and the pile holds all its other copies.
IsLastUndiscardedCopy(card) ==
  /\ card.value > table[card.colour]
  /\ Cardinality({k \in 1..Len(discard_pile) : discard_pile[k] = card}) + 1
       = CARD_COUNTS[card.colour][card.value]

\* C26: a misplay takes a mistake token and puts the card on the discard
\* pile in every case; if the card was the last undiscarded copy of an
\* unplayed identity the game ends with the last-copy reason, whether or not
\* mistake tokens remain; otherwise it ends with the out-of-mistakes reason
\* when the token count reaches 0; when the game ends no card is drawn and the
\* slot is left empty with a fresh grid.
C26_MisplayOrder ==
  [][(/\ turns' = turns + 1
      /\ last'.action.name = "play"
      /\ table[last'.card.colour] + 1 # last'.card.value) =>
       LET P == last'.player
           slot == last'.action.args[1]
           card == last'.card
       IN /\ card = hands[P][slot]
          /\ mistakes_remaining' = mistakes_remaining - 1
          /\ discard_pile' = Append(discard_pile, card)
          /\ table' = table
          /\ game_over' = IF IsLastUndiscardedCopy(card) THEN LastCopyReason
                          ELSE IF mistakes_remaining' = 0 THEN MistakesReason
                          ELSE ""
          /\ hints'[P][slot] = initial_hints
          /\ game_over' # "" =>
               /\ hands'[P][slot] = None
               /\ deck' = deck]_vars

\* The third misplay in a row discarded a last copy: the game is over with
\* the last-copy reason and no mistake token is left, cards remain in the
\* deck and the slot is empty.
C26_Witness ==
  /\ LastIs("play")
  /\ game_over = LastCopyReason
  /\ mistakes_remaining = 0
  /\ Len(deck) > 0
  /\ hands[last.player][last.action.args[1]] = None
  /\ hints[last.player][last.action.args[1]] = initial_hints

\* What hanabi.py's apply_action does to the game state, for the action.
hanabi_branch(player_id, action) ==
  CASE action.name = "discard" -> hanabi_discard_branch(player_id, action)
    [] action.name = "play" -> hanabi_play_branch(player_id, action)
    [] action.name = "hint" -> hanabi_hint_branch(player_id, action)

\* C27: from every state a game of gamestate.py reaches, the step its
\* apply_action takes for a legal action leaves the deck, the hands, the
\* table, the hint and mistake tokens, the grids, the discard pile and the
\* GameOver signal as hanabi.py's apply_action leaves them from the same
\* state for the same action.
C27_ImplementationsAgree ==
  [][turns' = turns + 1 => hanabi_branch(last'.player, last'.action)]_vars

====
